---- MODULE Spec2Model ----
(***************************************************************************)
(* Model of crates/pensieve/src/lib.rs: collapse_deterministic, the        *)
(* "Thresholded Bit Folding" collapse of a byte slice under an f32         *)
(* tolerance.  A harness makes two calls, as the tests of the crate do     *)
(* (collapsed1 = collapse(data1, t); collapsed2 = collapse(data2, t)), so  *)
(* that relations between two outputs are state predicates.                *)
(***************************************************************************)
EXTENDS Integers, Sequences, FiniteSets

\* ---------------------------------------------------------------- bounds
\* Longest input, in bytes (0xAA + i leaves the u8 range from i = 86 on).
MaxLen == 87
\* Inputs up to this length vary their last byte over all of LastBytes.
MaxShortLen == 17

\* ------------------------------------------------------------ arithmetic
Pow2(n) == 2 ^ n

RECURSIVE BitLen(_)
BitLen(n) == IF n = 0 THEN 0 ELSE 1 + BitLen(n \div 2)

Max(a, b) == IF a >= b THEN a ELSE b

Min(a, b) == IF a <= b THEN a ELSE b

\* u8 ^ u8, bit by bit.
RECURSIVE XorBits(_, _, _)
XorBits(a, b, n) ==
    IF n = 0 THEN 0
    ELSE (((a % 2) + (b % 2)) % 2) + 2 * XorBits(a \div 2, b \div 2, n - 1)

Xor(a, b) == XorBits(a, b, 8)

\* ------------------------------------------------------------ f32 values
\* A finite f32 is num / 2^exp with |num| < 2^24; NaN and the infinities
\* are kinds of their own.
F32(n, e) == [kind |-> "num", num |-> n, exp |-> e]

F32NaN == [kind |-> "nan", num |-> 0, exp |-> 0]

F32PosInf == [kind |-> "pinf", num |-> 0, exp |-> 0]

F32NegInf == [kind |-> "ninf", num |-> 0, exp |-> 0]

\* The literals 0.05 and 0.25 as f32 (0x3D4CCCCD and 0x3E800000).
F32_0_05 == F32(13421773, 28)

F32_0_25 == F32(1, 2)

\* IEEE comparison a < b: false as soon as one side is NaN.
F32Lt(a, b) ==
    CASE a.kind = "nan" \/ b.kind = "nan" -> FALSE
      [] a.kind = "ninf" -> b.kind # "ninf"
      [] b.kind = "pinf" -> a.kind # "pinf"
      [] a.kind = "pinf" \/ b.kind = "ninf" -> FALSE
      [] OTHER -> LET m == Max(a.exp, b.exp)
                  IN  a.num * Pow2(m - a.exp) < b.num * Pow2(m - b.exp)

\* Clamp with the lower bound left out.
ClampUpperOnly(t) == IF F32Lt(F32_0_25, t) THEN F32_0_25 ELSE t

\* f32::clamp(0.05, 0.25): if x < min {min} else if x > max {max} else x;
\* a NaN compares false both times and is returned as it is.
Clamp(t) ==
    IF F32Lt(t, F32_0_05) THEN F32_0_05
    ELSE IF F32Lt(F32_0_25, t) THEN F32_0_25
    ELSE t

\* Round the non-negative real n / 2^e to the nearest f32 (24 significant
\* bits, ties to even).
RoundF32(n, e) ==
    LET s == BitLen(n) - 24
    IN  IF s <= 0 THEN F32(n, e)
        ELSE LET q    == n \div Pow2(s)
                 r    == n % Pow2(s)
                 half == Pow2(s - 1)
                 up   == r > half \/ (r = half /\ q % 2 = 1)
             IN  F32(IF up THEN q + 1 ELSE q, e - s)

\* tolerance * (chunk_size as f32), for a clamped tolerance (finite or NaN).
F32MulInt(t, k) ==
    IF t.kind = "nan" THEN F32NaN ELSE RoundF32(t.num * k, t.exp)

\* x.ceil() as u32 for a non-negative finite x or NaN: the cast of NaN is 0.
CeilAsU32(x) ==
    IF x.kind = "nan" THEN 0
    ELSE (x.num + Pow2(x.exp) - 1) \div Pow2(x.exp)

\* ------------------------------------------------- collapse_deterministic
TotalBits(inp) == Len(inp) * 8

\* bits[k] (k from 1): each byte from bit 7 down to bit 0, as a bool.
Bit(inp, k) ==
    (inp[((k - 1) \div 8) + 1] \div Pow2(7 - ((k - 1) % 8))) % 2 = 1

\* NumChunks without the cap of 8 chunks.
NumChunksUncapped(tb) == tb \div 16

NumChunks(tb) == IF tb >= 128 THEN 8 ELSE tb \div 16

ChunkSize(tb) == tb \div Max(NumChunks(tb), 1)

\* bits.chunks(cs) yields consecutive slices of cs bits, the last one
\* holding what is left over: their number, and the j-th of them.
ChunkCount(tb, cs) == (tb + cs - 1) \div cs

Chunk(inp, cs, j) ==
    [k \in 1..(Min(j * cs, TotalBits(inp)) - (j - 1) * cs) |->
        Bit(inp, (j - 1) * cs + k)]

Sum(chunk) == Cardinality({k \in DOMAIN chunk : chunk[k]})

Threshold(tol, cs) == CeilAsU32(F32MulInt(tol, cs))

\* Level with the threshold taken from the chunk's own length.
LevelOwnLength(chunk, cs, tol) ==
    IF Sum(chunk) >= Threshold(tol, Len(chunk)) THEN 1 ELSE 0

Level(chunk, cs, tol) == IF Sum(chunk) >= Threshold(tol, cs) THEN 1 ELSE 0

Collapsed(inp, t) ==
    [j \in 1..ChunkCount(TotalBits(inp), ChunkSize(TotalBits(inp))) |->
        Level(Chunk(inp, ChunkSize(TotalBits(inp)), j),
              ChunkSize(TotalBits(inp)), Clamp(t))]

\* BaseValue scaled by 256, which a u8 wraps to 0.
BaseValueWrapped(lvl) == (lvl * 256) % 256

BaseValue(lvl) == lvl * 255

\* 0xAA + i as u8 at byte index i (from 0): the cast truncates i, the
\* addition is a u8 addition.
MaskSum(i) == 170 + (i % 256)

\* Stretch producing one byte per level instead of one per input byte.
StretchPerLevel(n, lv) ==
    [p \in 1..Len(lv) |->
        Xor(BaseValue(lv[((p - 1) % Len(lv)) + 1]), MaskSum(p - 1) % 256)]

Stretch(n, lv) ==
    [p \in 1..n |->
        Xor(BaseValue(lv[((p - 1) % Len(lv)) + 1]), MaskSum(p - 1) % 256)]

SmallResult(inp) == [p \in 1..Len(inp) |-> Xor(inp[p], 170)]

\* ------------------------------------------------------------ the harness
VARIABLES input, tolerance, pc, collapsed, result

vars == <<input, tolerance, pc, collapsed, result>>

Calls == 1..2

FillBytes == {0, 255}

LastBytes == {0, 1, 85, 255}

Pattern(n, f, l) == [p \in 1..n |-> IF p = n THEN l ELSE f]

Inputs(n) ==
    {Pattern(n, f, l) : f \in FillBytes,
                        l \in IF n <= MaxShortLen THEN LastBytes ELSE FillBytes}

Tolerances ==
    {F32NaN, F32NegInf, F32(0, 0), F32_0_05, F32(1, 3), F32(13421773, 26),
     F32_0_25, F32PosInf}

Init ==
    /\ \E n \in 0..MaxLen : \E a \in Inputs(n), b \in Inputs(n) :
          input = <<a, b>>
    /\ \E t1 \in Tolerances, t2 \in Tolerances : tolerance = <<t1, t2>>
    /\ input[1] = input[2] \/ tolerance[1] = tolerance[2]
    /\ Len(input[1]) > MaxShortLen =>
          input[1] = input[2] /\ tolerance[1] = tolerance[2]
    /\ pc = <<"ready", "ready">>
    /\ collapsed = << <<>>, <<>> >>
    /\ result = << <<>>, <<>> >>

\* The calls are made one after the other.
Turn(c) == pc[c] = "ready" /\ \A d \in Calls : d < c => pc[d] # "ready"

\* total_bits < 8: every byte XOR 0xAA.
SmallInput(c) ==
    /\ Turn(c)
    /\ TotalBits(input[c]) < 8
    /\ result' = [result EXCEPT ![c] = SmallResult(input[c])]
    /\ pc' = [pc EXCEPT ![c] = "returned"]
    /\ UNCHANGED <<input, tolerance, collapsed>>

\* The whole of the function on an input of at least one byte, the u8
\* addition 0xAA + i wrapping (overflow checks off) or never overflowing.
Collapse(c) ==
    /\ Turn(c)
    /\ TotalBits(input[c]) >= 8
    /\ collapsed' = [collapsed EXCEPT ![c] = Collapsed(input[c], tolerance[c])]
    /\ result' = [result EXCEPT ![c] = Stretch(Len(input[c]), collapsed'[c])]
    /\ pc' = [pc EXCEPT ![c] = "returned"]
    /\ UNCHANGED <<input, tolerance>>

\* The same with overflow checks on: the levels are computed, then the
\* addition 0xAA + i panics at the first i where it leaves the u8 range.
Overflow(c) ==
    /\ Turn(c)
    /\ TotalBits(input[c]) >= 8
    /\ \E i \in 0..(Len(input[c]) - 1) : MaskSum(i) > 255
    /\ collapsed' = [collapsed EXCEPT ![c] = Collapsed(input[c], tolerance[c])]
    /\ pc' = [pc EXCEPT ![c] = "panicked"]
    /\ UNCHANGED <<input, tolerance, result>>

Next == \E c \in Calls : SmallInput(c) \/ Collapse(c) \/ Overflow(c)

Spec == Init /\ [][Next]_vars

\* ------------------------------------------------------------ properties
Returned(c) == pc[c] = "returned"

BothReturned == Returned(1) /\ Returned(2)

\* The levels of call c exist once the call has run past the chunk loop.
Ran(c) == pc[c] # "ready" /\ Len(input[c]) >= 1

\* Number of bit positions in which two inputs of one length differ.
Hamming(a, b) ==
    Cardinality({k \in 1..TotalBits(a) : Bit(a, k) # Bit(b, k)})

\* t is a number of [0.05, 0.25].
InRange(t) ==
    t.kind = "num" /\ ~F32Lt(t, F32_0_05) /\ ~F32Lt(F32_0_25, t)

\* h <= t * (8 * n) for a finite t and integers h, n, in exact arithmetic.
AtMostFraction(h, t, n) ==
    IF t.exp >= 3 THEN h <= (t.num * n) \div Pow2(t.exp - 3)
    ELSE h <= t.num * n * Pow2(3 - t.exp)

\* The two calls are on inputs of one non-empty length at one tolerance of
\* [0.05, 0.25], and both have returned.
ComparablePair ==
    /\ BothReturned
    /\ Len(input[1]) >= 1
    /\ tolerance[1] = tolerance[2]
    /\ InRange(tolerance[1])

\* C1: two equal-length non-empty inputs that differ in at most
\* t * total_bits bit positions collapse to the same output (t in
\* [0.05, 0.25]), whichever positions were flipped.
C1_WithinToleranceEquivalence ==
    (/\ ComparablePair
     /\ AtMostFraction(Hamming(input[1], input[2]), tolerance[1],
                       Len(input[1])))
    => result[1] = result[2]

\* C2: two equal-length non-empty inputs that differ in more than
\* t * total_bits bit positions collapse to different outputs.
C2_ExceedingToleranceDivergence ==
    (/\ ComparablePair
     /\ ~AtMostFraction(Hamming(input[1], input[2]), tolerance[1],
                        Len(input[1])))
    => result[1] # result[2]

\* C3: the output of a call on a non-empty input differs from the input.
C3_OutputDiffersFromInput ==
    \A c \in Calls :
        (Returned(c) /\ Len(input[c]) >= 1) => result[c] # input[c]

\* C4: the call is total: the chunk size is never 0, the level sequence of
\* a non-empty input is never empty, and no call ends in an execution
\* fault, the mask 0xAA + i being taken modulo 256.
C4_Total ==
    \A c \in Calls :
        /\ Len(input[c]) >= 1 => ChunkSize(TotalBits(input[c])) >= 1
        /\ Ran(c) => Len(collapsed[c]) >= 1
        /\ pc[c] # "panicked"

\* C5: the output of a call has as many bytes as its input, the empty
\* input included.
C5_LengthPreservation ==
    \A c \in Calls : Returned(c) => Len(result[c]) = Len(input[c])

C5_Witness ==
    /\ Returned(1) /\ Returned(2)
    /\ input[1] = <<>> /\ result[1] = <<>>

\* C6: on one input, a tolerance below 0.05 gives the output of tolerance
\* 0.05 and a tolerance above 0.25 gives the output of tolerance 0.25.
C6_ToleranceClamping ==
    \A c \in Calls, d \in Calls :
        (BothReturned /\ input[c] = input[d]) =>
            /\ (F32Lt(tolerance[c], F32_0_05) /\ tolerance[d] = F32_0_05)
                  => result[c] = result[d]
            /\ (F32Lt(F32_0_25, tolerance[c]) /\ tolerance[d] = F32_0_25)
                  => result[c] = result[d]

C6_Witness ==
    /\ BothReturned
    /\ input[1] = input[2]
    /\ tolerance[1] = F32(0, 0) /\ tolerance[2] = F32_0_05
    /\ \E j \in DOMAIN collapsed[1] : collapsed[1][j] = 0
    /\ result[1] = result[2]

\* C7: for two non-empty inputs of one length at one tolerance, the outputs
\* are equal exactly when the level sequences are equal.
C7_OutputEqualityIsLevelEquality ==
    (/\ BothReturned
     /\ Len(input[1]) >= 1
     /\ tolerance[1] = tolerance[2])
    => (result[1] = result[2] <=> collapsed[1] = collapsed[2])

C7_Witness ==
    /\ BothReturned
    /\ tolerance[1] = tolerance[2]
    /\ Len(input[1]) = 1
    /\ collapsed[1] # collapsed[2]
    /\ result[1] # result[2]

\* C8: a non-empty input of at least 128 bits gives exactly 8 levels; a
\* smaller one gives max(num_chunks, 1) levels or one more, and never more
\* than 8.
C8_NumberOfLevels ==
    \A c \in Calls :
        Ran(c) =>
            LET tb == 8 * Len(input[c])
                nc == IF tb >= 128 THEN 8 ELSE tb \div 16
                n  == Len(collapsed[c])
            IN  /\ tb >= 128 => n = 8
                /\ tb < 128 => n \in {Max(nc, 1), Max(nc, 1) + 1}
                /\ n <= 8

C8_Witness ==
    /\ Ran(1) /\ Ran(2)
    /\ Len(input[1]) = 15
    /\ Len(collapsed[1]) = 8

C10_LevelMonotonicity ==
    /\ (/\ Ran(1) /\ Ran(2)
        /\ tolerance[1] = tolerance[2]
        /\ \A k \in 1..TotalBits(input[1]) :
              Bit(input[1], k) => Bit(input[2], k))
       => \A j \in DOMAIN collapsed[1] : collapsed[1][j] <= collapsed[2][j]
    /\ (/\ Ran(1) /\ Ran(2)
        /\ input[1] = input[2]
        /\ ~F32Lt(tolerance[2], tolerance[1])
        /\ tolerance[1].kind # "nan" /\ tolerance[2].kind # "nan")
       => \A j \in DOMAIN collapsed[1] : collapsed[2][j] <= collapsed[1][j]
    /\ \A c \in Calls :
          Ran(c) =>
              \A j \in DOMAIN collapsed[c] :
                  Sum(Chunk(input[c], ChunkSize(TotalBits(input[c])), j)) = 0
                      => collapsed[c][j] = 0
====
